---- MODULE Spec2Model ----
(***************************************************************************)
(* GenAI SOW Architect (src/agent.py): the structured generation client    *)
(* call_gemini_json with its helper clean_json_string, and the handler of  *)
(* the "generate" button that runs six generation phases and merges their  *)
(* results into the session store st.session_state.autofill_data.          *)
(*                                                                         *)
(* Python values are tagged tuples, the tag first: <<"NoneType">>,         *)
(* <<"bool", b>>, <<"int", n>>, <<"str", chars>>, <<"list", elems>> and    *)
(* <<"dict", f>> with f a function from keys (Python values) to values.    *)
(* A str is the sequence of its characters, each a one-character string;   *)
(* the backtick is written BT.                                             *)
(***************************************************************************)
EXTENDS Integers, Sequences, FiniteSets, TLC

\* ------------------------------------------------------------- Python values

BT == "bt"
QT == "\""

PyNone == <<"NoneType">>
PyBool(b) == <<"bool", b>>
PyInt(n) == <<"int", n>>
PyStr(s) == <<"str", s>>
PyList(xs) == <<"list", xs>>
PyDict(f) == <<"dict", f>>

TypeOf(v) == v[1]

EmptyDict == [k \in {} |-> k]

\* d[k] = v on a dict
SetItem(d, k, v) == [x \in DOMAIN d \cup {k} |-> IF x = k THEN v ELSE d[x]]

\* bool(v): None, False, 0, "", [] and {} are falsy
Truthy(v) ==
    CASE TypeOf(v) = "NoneType" -> FALSE
      [] TypeOf(v) = "bool" -> v[2]
      [] TypeOf(v) = "int" -> v[2] # 0
      [] TypeOf(v) = "str" -> Len(v[2]) > 0
      [] TypeOf(v) = "list" -> Len(v[2]) > 0
      [] TypeOf(v) = "dict" -> DOMAIN v[2] # {}

\* The outcome of evaluating an expression: exc = "" and the value, or the
\* name of the exception raised.
Ok(v) == [exc |-> "", val |-> v]
Raise(e) == [exc |-> e, val |-> PyNone]

\* obj.get(key, default)
PyGet(obj, key, default) ==
    IF TypeOf(obj) # "dict" THEN Raise("AttributeError")
    ELSE IF key \in DOMAIN obj[2] THEN Ok(obj[2][key])
    ELSE Ok(default)

\* obj[0]
PyIndex0(obj) ==
    CASE TypeOf(obj) = "list" ->
            IF Len(obj[2]) = 0 THEN Raise("IndexError") ELSE Ok(obj[2][1])
      [] TypeOf(obj) = "str" ->
            IF Len(obj[2]) = 0 THEN Raise("IndexError")
            ELSE Ok(PyStr(<<obj[2][1]>>))
      [] TypeOf(obj) = "dict" ->
            IF PyInt(0) \in DOMAIN obj[2] THEN Ok(obj[2][PyInt(0)])
            ELSE Raise("KeyError")
      [] OTHER -> Raise("TypeError")

\* ------------------------------------------------------------------ strings

Whitespace == {" ", "\n", "\t", "\r"}

Drop(s, n) == IF n >= Len(s) THEN <<>> ELSE SubSeq(s, n + 1, Len(s))
DropLast(s, n) == IF n >= Len(s) THEN <<>> ELSE SubSeq(s, 1, Len(s) - n)

StartsWith(s, p) == Len(s) >= Len(p) /\ SubSeq(s, 1, Len(p)) = p
EndsWith(s, p) == Len(s) >= Len(p) /\ SubSeq(s, Len(s) - Len(p) + 1, Len(s)) = p

RECURSIVE LStrip(_)
LStrip(s) == IF s # <<>> /\ Head(s) \in Whitespace THEN LStrip(Tail(s)) ELSE s

RECURSIVE RStrip(_)
RStrip(s) ==
    IF s # <<>> /\ s[Len(s)] \in Whitespace THEN RStrip(DropLast(s, 1)) ELSE s

\* text.strip()
Strip(s) == RStrip(LStrip(s))

Fence == <<BT, BT, BT>>
FenceJson == <<BT, BT, BT, "j", "s", "o", "n">>

\* clean_json_string with the two prefix tests in the other order
clean_json_string_plain_first(text) ==
    LET t1 == Strip(text)
        t2 == IF StartsWith(t1, Fence) THEN Drop(t1, 3)
              ELSE IF StartsWith(t1, FenceJson) THEN Drop(t1, 7)
              ELSE t1
        t3 == IF EndsWith(t2, Fence) THEN DropLast(t2, 3) ELSE t2
    IN  Strip(t3)

\* clean_json_string(text), text the characters of a str
clean_json_string(text) ==
    LET t1 == Strip(text)
        t2 == IF StartsWith(t1, FenceJson) THEN Drop(t1, 7)
              ELSE IF StartsWith(t1, Fence) THEN Drop(t1, 3)
              ELSE t1
        t3 == IF EndsWith(t2, Fence) THEN DropLast(t2, 3) ELSE t2
    IN  Strip(t3)

\* --------------------------------------------------------------- json.loads

Digits == {"0", "1", "2", "3", "4", "5", "6", "7", "8", "9"}
DigitVal(c) ==
    CASE c = "0" -> 0 [] c = "1" -> 1 [] c = "2" -> 2 [] c = "3" -> 3
      [] c = "4" -> 4 [] c = "5" -> 5 [] c = "6" -> 6 [] c = "7" -> 7
      [] c = "8" -> 8 [] c = "9" -> 9

\* A scan result: ok, the value read and the index just past it.
Scanned(v, e) == [ok |-> TRUE, val |-> v, end |-> e]
ScanError == [ok |-> FALSE, val |-> PyNone, end |-> 0]

At(s, i) == IF i >= 1 /\ i <= Len(s) THEN s[i] ELSE "<eof>"

\* s[i:i+len(p)] == p
Match(s, i, p) == i + Len(p) - 1 <= Len(s) /\ SubSeq(s, i, i + Len(p) - 1) = p

RECURSIVE SkipWs(_, _)
SkipWs(s, i) == IF At(s, i) \in Whitespace THEN SkipWs(s, i + 1) ELSE i

\* The index of the closing quote of the string whose text starts at i, or 0.
\* Escapes are outside the alphabet: a backslash ends the scan with an error.
RECURSIVE StringEnd(_, _)
StringEnd(s, i) ==
    IF i > Len(s) \/ s[i] = "\\" THEN 0
    ELSE IF s[i] = QT THEN i
    ELSE StringEnd(s, i + 1)

\* s[i] is the opening quote
ScanString(s, i) ==
    LET e == StringEnd(s, i + 1)
    IN  IF e = 0 THEN ScanError
        ELSE Scanned(PyStr(SubSeq(s, i + 1, e - 1)), e + 1)

RECURSIVE DigitsEnd(_, _)
DigitsEnd(s, i) == IF At(s, i) \in Digits THEN DigitsEnd(s, i + 1) ELSE i

RECURSIVE DigitsValue(_)
DigitsValue(ds) ==
    IF ds = <<>> THEN 0
    ELSE 10 * DigitsValue(DropLast(ds, 1)) + DigitVal(ds[Len(ds)])

\* An integer: 0, or a non-zero digit and more digits. Sign, fraction and
\* exponent are outside the alphabet.
ScanNumber(s, i) ==
    LET e == IF s[i] = "0" THEN i + 1 ELSE DigitsEnd(s, i)
    IN  Scanned(PyInt(DigitsValue(SubSeq(s, i, e - 1))), e)

RECURSIVE ScanValue(_, _)
RECURSIVE ScanMembers(_, _, _)
RECURSIVE ScanElements(_, _, _)

\* scan_once(s, idx)
ScanValue(s, i) ==
    LET c == At(s, i)
    IN  CASE c = QT -> ScanString(s, i)
          [] c = "{" ->
                LET j == SkipWs(s, i + 1)
                IN  IF At(s, j) = "}" THEN Scanned(PyDict(EmptyDict), j + 1)
                    ELSE ScanMembers(s, j, EmptyDict)
          [] c = "[" ->
                LET j == SkipWs(s, i + 1)
                IN  IF At(s, j) = "]" THEN Scanned(PyList(<<>>), j + 1)
                    ELSE ScanElements(s, j, <<>>)
          [] c = "n" ->
                IF Match(s, i, <<"n", "u", "l", "l">>)
                THEN Scanned(PyNone, i + 4) ELSE ScanError
          [] c = "t" ->
                IF Match(s, i, <<"t", "r", "u", "e">>)
                THEN Scanned(PyBool(TRUE), i + 4) ELSE ScanError
          [] c = "f" ->
                IF Match(s, i, <<"f", "a", "l", "s", "e">>)
                THEN Scanned(PyBool(FALSE), i + 5) ELSE ScanError
          [] c \in Digits -> ScanNumber(s, i)
          [] OTHER -> ScanError

\* JSONObject, at the first member's key; a later duplicate key wins
ScanMembers(s, i, d) ==
    IF At(s, i) # QT THEN ScanError
    ELSE LET k == ScanString(s, i)
         IN  IF ~k.ok THEN ScanError
             ELSE LET c == SkipWs(s, k.end)
                  IN  IF At(s, c) # ":" THEN ScanError
                      ELSE LET v == ScanValue(s, SkipWs(s, c + 1))
                           IN  IF ~v.ok THEN ScanError
                               ELSE LET d2 == SetItem(d, k.val, v.val)
                                        n == SkipWs(s, v.end)
                                    IN  IF At(s, n) = "}"
                                        THEN Scanned(PyDict(d2), n + 1)
                                        ELSE IF At(s, n) = ","
                                        THEN ScanMembers(s, SkipWs(s, n + 1), d2)
                                        ELSE ScanError

\* JSONArray, at the first element
ScanElements(s, i, xs) ==
    LET v == ScanValue(s, i)
    IN  IF ~v.ok THEN ScanError
        ELSE LET n == SkipWs(s, v.end)
                 ys == Append(xs, v.val)
             IN  IF At(s, n) = "]" THEN Scanned(PyList(ys), n + 1)
                 ELSE IF At(s, n) = "," THEN ScanElements(s, SkipWs(s, n + 1), ys)
                 ELSE ScanError

\* json.loads(text): the value, or JSONDecodeError (also on extra data)
json_loads(text) ==
    LET v == ScanValue(text, SkipWs(text, 1))
    IN  IF v.ok /\ SkipWs(text, v.end) = Len(text) + 1 THEN Ok(v.val)
        ELSE Raise("JSONDecodeError")

\* ------------------------------------------------------- the client's inputs

K_candidates == PyStr(<<"c", "a", "n", "d", "i", "d", "a", "t", "e", "s">>)
K_content == PyStr(<<"c", "o", "n", "t", "e", "n", "t">>)
K_parts == PyStr(<<"p", "a", "r", "t", "s">>)
K_text == PyStr(<<"t", "e", "x", "t">>)

\* One key of a dict
Dict1(k, v) == SetItem(EmptyDict, k, v)

\* What requests.post gave: it raised (a transport error), or a response with
\* its status_code and the outcome of response.json().
TransportError == [raised |-> TRUE, status_code |-> 0, json |-> Raise("ConnectionError")]
HttpResponse(status, json) == [raised |-> FALSE, status_code |-> status, json |-> json]

\* A body with the value v at candidates[0].content.parts[0].text
BodyWithText(v) ==
    PyDict(Dict1(K_candidates, PyList(<<
        PyDict(Dict1(K_content, PyDict(Dict1(K_parts, PyList(<<
            PyDict(Dict1(K_text, v)) >>)))))
    >>)))

\* ------------------------------------------------------ call_gemini_json

MaxAttempts == 3

\* result.get('candidates', [{}])[0].get('content', {}).get('parts', [{}])[0]
\*       .get('text', "{}")
ExtractText(result) ==
    LET a == PyGet(result, K_candidates, PyList(<<PyDict(EmptyDict)>>))
    IN  IF a.exc # "" THEN a
        ELSE LET b == PyIndex0(a.val)
        IN  IF b.exc # "" THEN b
        ELSE LET c == PyGet(b.val, K_content, PyDict(EmptyDict))
        IN  IF c.exc # "" THEN c
        ELSE LET d == PyGet(c.val, K_parts, PyList(<<PyDict(EmptyDict)>>))
        IN  IF d.exc # "" THEN d
        ELSE LET e == PyIndex0(d.val)
        IN  IF e.exc # "" THEN e
        ELSE PyGet(e.val, K_text, PyStr(<<"{", "}">>))

\* Lines 107-109: the text is extracted, cleaned (text.strip() needs a str)
\* and parsed.
ParseResult(result) ==
    LET t == ExtractText(result)
    IN  IF t.exc # "" THEN t
        ELSE IF TypeOf(t.val) # "str" THEN Raise("AttributeError")
        ELSE json_loads(clean_json_string(t.val[2]))

\* One pass of the loop body for what requests.post gave: the function
\* returns val, or the pass ends in time.sleep(1).
Returns(v) == [returns |-> TRUE, val |-> v]
SleepsThenLoops == [returns |-> FALSE, val |-> PyNone]

Attempt(r) ==
    IF r.raised THEN SleepsThenLoops
    ELSE IF r.status_code = 200
    THEN IF r.json.exc # "" THEN SleepsThenLoops
         ELSE LET v == ParseResult(r.json.val)
              IN  IF v.exc = "" THEN Returns(v.val)
                  ELSE IF v.exc \in {"IndexError", "JSONDecodeError"}
                  THEN Returns(PyNone)
                  ELSE SleepsThenLoops
    ELSE SleepsThenLoops

\* ------------------------------------------------ the endpoint's responses

\* JSON text of a value, as an endpoint may write it: sp is the whitespace it
\* puts after each "," and ":".
DigitChar(n) ==
    CASE n = 0 -> "0" [] n = 1 -> "1" [] n = 2 -> "2" [] n = 3 -> "3"
      [] n = 4 -> "4" [] n = 5 -> "5" [] n = 6 -> "6" [] n = 7 -> "7"
      [] n = 8 -> "8" [] n = 9 -> "9"

RECURSIVE IntText(_)
IntText(n) == IF n < 10 THEN <<DigitChar(n)>>
              ELSE IntText(n \div 10) \o <<DigitChar(n % 10)>>

RECURSIVE JsonText(_, _)
RECURSIVE ElementsText(_, _)
RECURSIVE MembersText(_, _)

JsonText(v, sp) ==
    CASE TypeOf(v) = "NoneType" -> <<"n", "u", "l", "l">>
      [] TypeOf(v) = "bool" ->
            IF v[2] THEN <<"t", "r", "u", "e">> ELSE <<"f", "a", "l", "s", "e">>
      [] TypeOf(v) = "int" -> IntText(v[2])
      [] TypeOf(v) = "str" -> <<QT>> \o v[2] \o <<QT>>
      [] TypeOf(v) = "list" -> <<"[">> \o ElementsText(v[2], sp) \o <<"]">>
      [] TypeOf(v) = "dict" -> <<"{">> \o MembersText(v[2], sp) \o <<"}">>

ElementsText(xs, sp) ==
    IF xs = <<>> THEN <<>>
    ELSE IF Len(xs) = 1 THEN JsonText(xs[1], sp)
    ELSE JsonText(xs[1], sp) \o <<",">> \o sp \o ElementsText(Tail(xs), sp)

MembersText(d, sp) ==
    IF DOMAIN d = {} THEN <<>>
    ELSE LET k == CHOOSE x \in DOMAIN d : TRUE
             rest == [x \in DOMAIN d \ {k} |-> d[x]]
             member == JsonText(k, sp) \o <<":">> \o sp \o JsonText(d[k], sp)
         IN  IF DOMAIN rest = {} THEN member
             ELSE member \o <<",">> \o sp \o MembersText(rest, sp)

\* Whitespace runs of at most MaxPad characters
MaxPad == 1
Pads == UNION {[1..n -> {" ", "\n"}] : n \in 0..MaxPad}
Separators == {<<>>, <<" ">>}

\* The payloads that carry the text core: bare, fenced as json, or fenced
\* without a tag, with optional whitespace around the payload and inside the
\* fence.
Bare(core) == {out \o core \o out : out \in Pads}
FencedJson(core) ==
    {out \o FenceJson \o in \o core \o in \o Fence \o out : out \in Pads, in \in Pads}
FencedPlain(core) ==
    {out \o Fence \o in \o core \o in \o Fence \o out : out \in Pads, in \in Pads}
Wrappings(core) == Bare(core) \cup FencedJson(core) \cup FencedPlain(core)

PayloadsOf(v) == UNION {Wrappings(JsonText(v, sp)) : sp \in Separators}

S_objective == PyStr(<<"o", "b", "j", "e", "c", "t", "i", "v", "e">>)
S_stakeholders == PyStr(<<"s", "t", "a", "k", "e", "h", "o", "l", "d", "e", "r", "s">>)
S_timeline == PyStr(<<"t", "i", "m", "e", "l", "i", "n", "e">>)
S_name == PyStr(<<"n", "a", "m", "e">>)
S_title == PyStr(<<"t", "i", "t", "l", "e">>)
S_email == PyStr(<<"e", "m", "a", "i", "l">>)
S_phase == PyStr(<<"p", "h", "a", "s", "e">>)
S_task == PyStr(<<"t", "a", "s", "k">>)
S_weeks == PyStr(<<"w", "e", "e", "k", "s">>)
S_usage_users == PyStr(<<"u", "s", "a", "g", "e", "_", "u", "s", "e", "r", "s">>)

ObjectiveA == Dict1(S_objective, PyStr(<<"A">>))
ObjectiveB == Dict1(S_objective, PyStr(<<"B">>))
TimelineRow(p, t, w) ==
    PyDict(SetItem(SetItem(Dict1(S_phase, PyStr(p)), S_task, PyStr(t)), S_weeks, PyStr(w)))
StakeholderRow(n, t, e) ==
    PyDict(SetItem(SetItem(Dict1(S_name, PyStr(n)), S_title, PyStr(t)), S_email, PyStr(e)))
Timeline1 ==
    SetItem(Dict1(S_timeline, PyList(<<TimelineRow(<<"P">>, <<"T">>, <<"2">>)>>)),
            S_usage_users, PyInt(10))

\* JSON objects an endpoint may answer with
JsonObjects ==
    { PyDict(EmptyDict), PyDict(ObjectiveA), PyDict(Timeline1),
      PyDict(SetItem(ObjectiveB, PyStr(<<>>), PyList(<<PyNone, PyBool(TRUE), PyInt(0)>>))) }

\* JSON values that are not objects
PairsThenFive == PyList(<<PyList(<<S_objective, PyStr(<<"B">>)>>), PyInt(5)>>)
JsonNonObjects ==
    { PyNone, PyBool(FALSE), PyInt(0), PyInt(5), PyStr(<<>>), PyStr(<<"A">>),
      PyList(<<>>), PyList(<<PyInt(1)>>), PairsThenFive }

\* Texts that are not JSON, or whose fence clean_json_string does not strip
InvalidTexts ==
    { <<>>, <<" ">>, <<"{">>, <<"{", "}", "}">>, <<"[", "1", ",", "]">>,
      <<"{", QT, "A", QT, ":", "}">>, <<"{", QT, "A", QT, ":", "1", ",", "}">>,
      <<"{", "A", ":", "1", "}">>, <<"0", "1">>, <<"n", "u", "l">>,
      Fence, FenceJson, FenceJson \o Fence,
      <<BT, BT, BT, "J", "S", "O", "N", "\n", "{", "}", "\n", BT, BT, BT>>,
      <<BT, BT, BT, BT, "{", "}", BT, BT, BT>>,
      <<BT, BT, "{", "}", BT, BT>>,
      <<"S", "u", "r", "e", ":", " ">> \o FenceJson \o <<"{", "}">> \o Fence,
      FenceJson \o <<"{", "}">> \o Fence \o <<" ", "D", "o", "n", "e">> }

\* Bodies in which the path candidates[0].content.parts[0].text is missing,
\* null or of the wrong type at some level
Level1(v) == PyDict(Dict1(K_candidates, v))
Level2(v) == Level1(PyList(<<PyDict(Dict1(K_content, v))>>))
Level3(v) == Level2(PyDict(Dict1(K_parts, v)))
WrongShapes == {PyNone, PyList(<<>>), PyDict(EmptyDict), PyList(<<PyNone>>), PyStr(<<"A">>), PyInt(5)}
ShapelessBodies ==
    { PyNone, PyList(<<>>), PyInt(5), PyStr(<<"A">>), PyDict(EmptyDict) }
    \cup {Level1(v) : v \in WrongShapes}
    \cup {Level2(v) : v \in WrongShapes}
    \cup {Level3(v) : v \in WrongShapes}
    \cup {BodyWithText(v) : v \in {PyNone, PyInt(5), PyList(<<>>), PyDict(EmptyDict)}}

ObjectBodies == {BodyWithText(PyStr(t)) : t \in UNION {PayloadsOf(J) : J \in JsonObjects}}
NonObjectBodies ==
    {BodyWithText(PyStr(t)) : t \in UNION {PayloadsOf(v) : v \in JsonNonObjects}}
InvalidBodies == {BodyWithText(PyStr(t)) : t \in InvalidTexts}

\* Status-200 payloads that are malformed: no text at the path, text that is
\* not JSON, or JSON text that is not an object
MalformedBodies == ShapelessBodies \cup InvalidBodies \cup NonObjectBodies

ErrorStatuses == {400, 429, 500}

ClientResponses ==
    {TransportError}
    \cup {HttpResponse(st, Raise("JSONDecodeError")) : st \in ErrorStatuses \cup {200}}
    \cup {HttpResponse(st, Ok(PyDict(EmptyDict))) : st \in ErrorStatuses}
    \cup {HttpResponse(200, Ok(b)) : b \in ObjectBodies \cup MalformedBodies}

\* What the endpoint answers during a generation run: one response for each
\* way a call can end.
HandlerResponses ==
    { TransportError,
      HttpResponse(500, Ok(PyDict(EmptyDict))),
      HttpResponse(200, Ok(PyDict(EmptyDict))),
      HttpResponse(200, Ok(BodyWithText(PyStr(JsonText(PyDict(ObjectiveA), <<" ">>))))),
      HttpResponse(200, Ok(BodyWithText(PyStr(
          FenceJson \o <<"\n">> \o JsonText(PyDict(ObjectiveB), <<" ">>) \o <<"\n">> \o Fence)))),
      HttpResponse(200, Ok(BodyWithText(PyStr(JsonText(PyDict(Timeline1), <<>>))))),
      HttpResponse(200, Ok(BodyWithText(PyStr(JsonText(PairsThenFive, <<>>))))) }

\* ------------------------------------------------------------- dict.update

\* The elements iterating v yields, for the values that can be iterated
IsIterable(v) == TypeOf(v) \in {"list", "str", "dict"}

RECURSIVE SetToSeq(_)
SetToSeq(S) ==
    IF S = {} THEN <<>>
    ELSE LET x == CHOOSE y \in S : TRUE IN <<x>> \o SetToSeq(S \ {x})

Elements(v) ==
    CASE TypeOf(v) = "list" -> v[2]
      [] TypeOf(v) = "str" -> [n \in 1..Len(v[2]) |-> PyStr(<<v[2][n]>>)]
      [] TypeOf(v) = "dict" -> SetToSeq(DOMAIN v[2])

Updated(d, e) == [exc |-> e, dict |-> d]

\* d.update(xs) for a sequence xs of elements: each must be a sequence of two
\* items, the key hashable. The items set before a bad element stay set.
\* (An element that is a dict of two keys is outside the responses drawn: the
\* model keeps no key order.)
RECURSIVE UpdateFromPairs(_, _)
UpdateFromPairs(d, xs) ==
    IF xs = <<>> THEN Updated(d, "")
    ELSE LET e == xs[1]
         IN  CASE TypeOf(e) \in {"NoneType", "bool", "int"} -> Updated(d, "TypeError")
               [] TypeOf(e) = "dict" /\ Cardinality(DOMAIN e[2]) # 2 ->
                     Updated(d, "ValueError")
               [] TypeOf(e) \in {"list", "str"} ->
                     IF Len(e[2]) # 2 THEN Updated(d, "ValueError")
                     ELSE LET kv == Elements(e)
                          IN  IF TypeOf(kv[1]) \in {"list", "dict"}
                              THEN Updated(d, "TypeError")
                              ELSE UpdateFromPairs(SetItem(d, kv[1], kv[2]), Tail(xs))

\* An update that keeps the value of a key the dict already has
DictUpdateKeepsOld(d, res) ==
    CASE TypeOf(res) = "dict" ->
            Updated([k \in DOMAIN d \cup DOMAIN res[2] |->
                        IF k \in DOMAIN d THEN d[k] ELSE res[2][k]], "")
      [] TypeOf(res) \in {"list", "str"} -> UpdateFromPairs(d, Elements(res))
      [] OTHER -> Updated(d, "TypeError")

\* generated_sow.update(res): the dict afterwards, and the exception raised
DictUpdate(d, res) ==
    CASE TypeOf(res) = "dict" ->
            Updated([k \in DOMAIN d \cup DOMAIN res[2] |->
                        IF k \in DOMAIN res[2] THEN res[2][k] ELSE d[k]], "")
      [] TypeOf(res) \in {"list", "str"} -> UpdateFromPairs(d, Elements(res))
      [] OTHER -> Updated(d, "TypeError")

\* ------------------------------------------------------------------- state

VARIABLES
    pc,              \* where the script is: "ready", "post", "sleep", "returned", "ui", "idle"
    caller,          \* who called call_gemini_json: "direct" or "handler"
    api_key,         \* call_gemini_json's argument
    i,               \* the loop variable of call_gemini_json
    posts,           \* requests.post calls made by the current call
    sleeps,          \* time.sleep calls made by the current call
    response,        \* what the last requests.post gave
    statuses,        \* the current call's attempts: each one's status_code, 0 if it raised
    ret,             \* what the last call returned
    api_key_input,   \* the credential the sidebar resolved
    heap,            \* the dict objects, by reference
    autofill_data,   \* st.session_state.autofill_data: a reference
    generated_sow,   \* the handler's local: a reference, 0 outside a run
    autofill_done,   \* st.session_state.autofill_done
    phase,           \* the phase the run is in, 1..6; 0 outside a run
    progress,        \* the values given to progress_bar.progress in this run
    status_text,     \* what status_text shows
    error,           \* what st.error showed in this script run
    outcomes         \* for each phase of this run that returned: "result" or "absent"

VARIABLES
    fields,          \* what Tab 6 renders: the tabs' locals (final_objective, ...)
    FPDF,            \* whether `from fpdf import FPDF` succeeded
    today,           \* the day datetime.now() falls on
    render_dates,    \* the days on which Tab 6 has rendered, in order
    html_content,    \* the last markup document, <<>> before the first
    pdf_data         \* the last create_pdf() outcome

vars == <<pc, caller, api_key, i, posts, sleeps, response, statuses, ret, api_key_input,
          heap, autofill_data, generated_sow, autofill_done, phase, progress,
          status_text, error, outcomes,
          fields, FPDF, today, render_dates, html_content, pdf_data>>

exportVars == <<fields, FPDF, today, render_dates, html_content, pdf_data>>

clientVars == <<api_key, i, posts, sleeps, response, statuses, ret>>
handlerVars == <<api_key_input, heap, autofill_data, generated_sow, autofill_done,
                 phase, progress, status_text, error, outcomes>>

NoResponse == HttpResponse(0, Raise("none"))

\* The session store and the run's draft, as dicts
Store == heap[autofill_data]
Draft == heap[generated_sow]

\* ------------------------------------------- call_gemini_json, step by step

Credentials == {PyNone, PyStr(<<>>), PyStr(<<"k">>)}

Responses == IF caller = "direct" THEN ClientResponses ELSE HandlerResponses

\* The call without its credential test
StartCallUnchecked(key, who) ==
    /\ caller' = who
    /\ api_key' = key
    /\ i' = 0
    /\ posts' = 0
    /\ sleeps' = 0
    /\ response' = NoResponse
    /\ statuses' = <<>>
    /\ ret' = PyNone
    /\ pc' = "post"

\* The call is entered: `if not api_key: return None`, else the loop starts.
StartCall(key, who) ==
    /\ caller' = who
    /\ api_key' = key
    /\ i' = 0
    /\ posts' = 0
    /\ sleeps' = 0
    /\ response' = NoResponse
    /\ statuses' = <<>>
    /\ ret' = PyNone
    /\ pc' = IF Truthy(key) THEN "post" ELSE "returned"

\* requests.post and the rest of the loop body up to a return or the sleep
Post ==
    /\ pc = "post"
    /\ \E r \in Responses :
          /\ response' = r
          /\ statuses' = Append(statuses, r.status_code)
          /\ posts' = posts + 1
          /\ ret' = Attempt(r).val
          /\ pc' = IF Attempt(r).returns THEN "returned" ELSE "sleep"
    /\ UNCHANGED <<caller, api_key, i, sleeps>>
    /\ UNCHANGED handlerVars
    /\ UNCHANGED exportVars

\* time.sleep(1), then the next pass of `for i in range(3)` or, after the
\* last one, `return None`
Sleep ==
    /\ pc = "sleep"
    /\ sleeps' = sleeps + 1
    /\ IF i + 1 < MaxAttempts
       THEN i' = i + 1 /\ pc' = "post"
       ELSE i' = i /\ pc' = "returned"
    /\ UNCHANGED <<caller, api_key, posts, response, statuses, ret>>
    /\ UNCHANGED handlerVars
    /\ UNCHANGED exportVars

\* call_gemini_json called on its own, with any credential
DirectCall ==
    /\ pc = "ready"
    /\ \E key \in Credentials : StartCall(key, "direct")
    /\ UNCHANGED handlerVars
    /\ UNCHANGED exportVars

DirectReturn ==
    /\ pc = "returned"
    /\ caller = "direct"
    /\ pc' = "ready"
    /\ UNCHANGED <<caller, api_key, i, posts, sleeps, response, statuses, ret>>
    /\ UNCHANGED handlerVars
    /\ UNCHANGED exportVars

\* --------------------------------------------------- the tabs (lines 286-370)

Placeholder == PyStr(<<"C", "l", "i", "c", "k", ".", ".", ".">>)
UserText == <<"E">>
S_Phase == PyStr(<<"P", "h", "a", "s", "e">>)
S_Task == PyStr(<<"T", "a", "s", "k">>)
S_Weeks == PyStr(<<"W", "e", "e", "k", "s">>)
S_dependencies == PyStr(<<"d", "e", "p", "e", "n", "d", "e", "n", "c", "i", "e", "s">>)
S_assumptions == PyStr(<<"a", "s", "s", "u", "m", "p", "t", "i", "o", "n", "s">>)
S_success_criteria ==
    PyStr(<<"s", "u", "c", "c", "e", "s", "s", "_", "c", "r", "i", "t", "e", "r", "i", "a">>)
S_architecture == PyStr(<<"a", "r", "c", "h", "i", "t", "e", "c", "t", "u", "r", "e">>)
S_points == PyStr(<<"p", "o", "i", "n", "t", "s">>)

\* repr(v)
RECURSIVE PyRepr(_)
RECURSIVE ReprElements(_)
RECURSIVE ReprMembers(_)
PyRepr(v) ==
    CASE TypeOf(v) = "NoneType" -> <<"N", "o", "n", "e">>
      [] TypeOf(v) = "bool" ->
            IF v[2] THEN <<"T", "r", "u", "e">> ELSE <<"F", "a", "l", "s", "e">>
      [] TypeOf(v) = "int" -> IntText(v[2])
      [] TypeOf(v) = "str" -> <<"'">> \o v[2] \o <<"'">>
      [] TypeOf(v) = "list" -> <<"[">> \o ReprElements(v[2]) \o <<"]">>
      [] TypeOf(v) = "dict" -> <<"{">> \o ReprMembers(v[2]) \o <<"}">>
ReprElements(xs) ==
    IF xs = <<>> THEN <<>>
    ELSE IF Len(xs) = 1 THEN PyRepr(xs[1])
    ELSE PyRepr(xs[1]) \o <<",", " ">> \o ReprElements(Tail(xs))
ReprMembers(d) ==
    IF DOMAIN d = {} THEN <<>>
    ELSE LET k == CHOOSE x \in DOMAIN d : TRUE
             rest == [x \in DOMAIN d \ {k} |-> d[x]]
             member == PyRepr(k) \o <<":", " ">> \o PyRepr(d[k])
         IN  IF DOMAIN rest = {} THEN member
             ELSE member \o <<",", " ">> \o ReprMembers(rest)

\* What a text widget returns: what the user typed, or its value argument,
\* cast to str (None stays None).
TextWidget(value, typed) ==
    IF typed THEN PyStr(UserText)
    ELSE IF TypeOf(value) \in {"NoneType", "str"} THEN value
    ELSE PyStr(PyRepr(value))

Rows(rows, e) == [exc |-> e, rows |-> rows]

\* Lines 302-309: one {"name", "title", "email"} row for each stakeholder
RECURSIVE StakeholderRows(_)
StakeholderRows(xs) ==
    IF xs = <<>> THEN Rows(<<>>, "")
    ELSE IF TypeOf(xs[1]) # "dict" THEN Rows(<<>>, "AttributeError")
    ELSE LET s == xs[1]
             row == PyDict(SetItem(SetItem(Dict1(
                        S_name, TextWidget(PyGet(s, S_name, PyStr(<<>>)).val, FALSE)),
                        S_title, TextWidget(PyGet(s, S_title, PyStr(<<>>)).val, FALSE)),
                        S_email, TextWidget(PyGet(s, S_email, PyStr(<<>>)).val, FALSE)))
             rest == StakeholderRows(Tail(xs))
         IN  IF rest.exc # "" THEN rest ELSE Rows(<<row>> \o rest.rows, "")

\* Lines 358-364: one {"Phase", "Task", "Weeks"} row for each timeline step,
\* read with step.get("phase"), step.get("task"), step.get("weeks")
RECURSIVE TimelineRows(_)
TimelineRows(xs) ==
    IF xs = <<>> THEN Rows(<<>>, "")
    ELSE IF TypeOf(xs[1]) # "dict" THEN Rows(<<>>, "AttributeError")
    ELSE LET step == xs[1]
             row == PyDict(SetItem(SetItem(Dict1(
                        S_Phase, TextWidget(PyGet(step, S_phase, PyStr(<<>>)).val, FALSE)),
                        S_Task, TextWidget(PyGet(step, S_task, PyStr(<<>>)).val, FALSE)),
                        S_Weeks, TextWidget(PyGet(step, S_weeks, PyStr(<<>>)).val, FALSE)))
             rest == TimelineRows(Tail(xs))
         IN  IF rest.exc # "" THEN rest ELSE Rows(<<row>> \o rest.rows, "")

\* "\n".join(v) if isinstance(v, list) else str(v): raises on a list item
\* that is no str
JoinRaises(v) ==
    TypeOf(v) = "list" /\ \E n \in 1..Len(v[2]) : TypeOf(v[2][n]) # "str"

\* Lines 324-350 only read the store; whether they raise
Tab3And4Raise(d) ==
    LET data == PyDict(d)
        sc == PyGet(data, S_success_criteria, PyList(<<>>)).val
        arch == PyGet(data, S_architecture, PyDict(EmptyDict)).val
    IN  \/ JoinRaises(PyGet(data, S_dependencies, PyList(<<>>)).val)
        \/ JoinRaises(PyGet(data, S_assumptions, PyList(<<>>)).val)
        \/ ~IsIterable(sc)
        \/ \E n \in 1..Len(Elements(sc)) :
              \/ TypeOf(Elements(sc)[n]) # "dict"
              \/ ~IsIterable(PyGet(Elements(sc)[n], S_points, PyList(<<>>)).val)
        \/ TypeOf(arch) # "dict"

DefaultStakeholders == PyList(<<StakeholderRow(<<>>, <<>>, <<>>)>>)
DefaultTimeline ==
    PyList(<<TimelineRow(<<"S", "e", "t", "u", "p">>, <<"I", "n", "i", "t">>,
                         <<"W", "k", "1">>)>>)

\* The tabs' pass over `data`, the store's dict, with the "+ Add" buttons not
\* pressed: the dict it leaves. An exception ends the script where it is
\* raised, so the writes before it stay.
UIPass(d, typedObjective) ==
    LET d1 == SetItem(d, S_objective,
                  TextWidget(PyGet(PyDict(d), S_objective, Placeholder).val,
                             typedObjective))
        stk == PyGet(PyDict(d1), S_stakeholders, DefaultStakeholders).val
        tl == PyGet(PyDict(d1), S_timeline, DefaultTimeline).val
    IN  IF ~IsIterable(stk) \/ StakeholderRows(Elements(stk)).exc # "" THEN d1
        ELSE LET d2 == SetItem(d1, S_stakeholders,
                               PyList(StakeholderRows(Elements(stk)).rows))
             IN  IF Tab3And4Raise(d2) THEN d2
                 ELSE IF ~IsIterable(tl) \/ TimelineRows(Elements(tl)).exc # "" THEN d2
                 ELSE SetItem(d2, S_timeline, PyList(TimelineRows(Elements(tl)).rows))

\* ------------------------------------- the generate button (lines 179-284)

NumPhases == 6
ProgressAfter == <<20, 40, 60, 80, 90, 100>>
StatusOfPhase == <<"1/6", "2/6", "3/6", "4/6", "5/6", "6/6">>

\* The objects still referenced once the run's local is gone
Collected(h, keep) == [o \in DOMAIN h |-> IF o = keep THEN h[o] ELSE EmptyDict]

\* The button is pressed. Without a credential st.error is shown and nothing
\* else happens; with one the draft is a copy of the store, and phase 1 calls.
Click ==
    /\ pc = "idle"
    /\ \E key \in Credentials \ {PyNone} :
          /\ api_key_input' = key
          /\ IF ~Truthy(key)
             THEN /\ error' = "Please provide a Gemini API Key"
                  /\ pc' = "ui"
                  /\ UNCHANGED <<heap, generated_sow, phase, progress, status_text,
                                 outcomes, caller>>
                  /\ UNCHANGED clientVars
             ELSE LET new == IF autofill_data = 1 THEN 2 ELSE 1
                  IN  /\ heap' = [heap EXCEPT ![new] = heap[autofill_data]]
                      /\ generated_sow' = new
                      /\ progress' = <<>>
                      /\ status_text' = StatusOfPhase[1]
                      /\ phase' = 1
                      /\ outcomes' = <<>>
                      /\ error' = ""
                      /\ StartCall(key, "handler")
    /\ UNCHANGED <<autofill_data, autofill_done>>
    /\ UNCHANGED exportVars

\* A handler that merges into the draft and never saves it
CommitTargetNever(res, exc) == autofill_data

\* A handler that completes one phase early
RunCompletesEarly(ph, res) == ph >= NumPhases - 1

\* Lines 195-197: `if res:` the merged draft becomes the store ("Save progress
\* immediately"), unless the merge raised.
CommitTarget(res, exc) ==
    IF Truthy(res) /\ exc = "" THEN generated_sow ELSE autofill_data

\* Lines 276-279 follow phase 6, whatever it returned.
RunCompletes(ph, res) == ph >= NumPhases

\* A phase's call has returned: `if res:` the result is merged into the draft
\* and the draft becomes the store; progress is reported; the next phase
\* calls, or after phase 6 the run completes. An exception raised by the
\* merge is caught by the handler's except clause, which ends the run.
Merge ==
    /\ pc = "returned"
    /\ caller = "handler"
    /\ LET res == ret
           u == IF Truthy(res) THEN DictUpdate(Draft, res) ELSE Updated(Draft, "")
           h == [heap EXCEPT ![generated_sow] = u.dict]
           store == CommitTarget(res, u.exc)
       IN  /\ autofill_data' = store
           /\ outcomes' = Append(outcomes, IF Truthy(res) THEN "result" ELSE "absent")
           /\ IF u.exc # ""
              THEN /\ error' = "Error during generation"
                   /\ status_text' = "Generation paused."
                   /\ pc' = "ui"
                   /\ heap' = Collected(h, store)
                   /\ generated_sow' = 0
                   /\ UNCHANGED <<progress, phase, autofill_done, caller>>
                   /\ UNCHANGED clientVars
              ELSE /\ progress' = Append(progress, ProgressAfter[phase])
                   /\ error' = ""
                   /\ IF ~RunCompletes(phase, res)
                      THEN /\ phase' = phase + 1
                           /\ status_text' = StatusOfPhase[phase + 1]
                           /\ heap' = h
                           /\ StartCall(api_key_input, "handler")
                           /\ UNCHANGED <<generated_sow, autofill_done>>
                      ELSE /\ autofill_done' = TRUE
                           /\ status_text' = "Complete SOW Draft Generated Successfully!"
                           /\ pc' = "ui"
                           /\ heap' = Collected(h, store)
                           /\ generated_sow' = 0
                           /\ UNCHANGED <<phase, caller>>
                           /\ UNCHANGED clientVars
    /\ UNCHANGED api_key_input
    /\ UNCHANGED exportVars

\* What a script run has put on the screen is gone when the next one starts.
ScreenCleared ==
    /\ progress' = <<>>
    /\ status_text' = ""
    /\ error' = ""
    /\ phase' = 0
    /\ outcomes' = <<>>

\* The rest of the script run that handled the button, and of the session's
\* first run: the tabs write their widgets' values into the store.
RenderTabs ==
    /\ pc = "ui"
    /\ heap' = [heap EXCEPT ![autofill_data] = UIPass(Store, FALSE)]
    /\ pc' = "idle"
    /\ ScreenCleared
    /\ UNCHANGED <<caller, api_key_input, autofill_data, generated_sow, autofill_done>>
    /\ UNCHANGED clientVars
    /\ UNCHANGED exportVars

\* A script run the button did not start: the user typed an objective, or
\* changed a widget the store does not hold.
EditRerun ==
    /\ pc = "idle"
    /\ \E typedObjective \in BOOLEAN :
          heap' = [heap EXCEPT ![autofill_data] = UIPass(Store, typedObjective)]
    /\ pc' = "idle"
    /\ ScreenCleared
    /\ UNCHANGED <<caller, api_key_input, autofill_data, generated_sow, autofill_done>>
    /\ UNCHANGED clientVars
    /\ UNCHANGED exportVars

\* Most timeline rows the "+ Add Timeline Phase" button is pressed up to
MaxRows == 2

\* Line 367: the row the button appends
NewPhaseRow ==
    PyDict(SetItem(SetItem(Dict1(
        S_Phase, PyStr(<<"N", "e", "w", " ", "P", "h", "a", "s", "e">>)),
        S_Task, PyStr(<<>>)),
        S_Weeks, PyStr(<<>>)))

\* The script run gets as far as Tab 5's button: no tab before it raised
ReachesTab5(d) ==
    LET stk == PyGet(PyDict(d), S_stakeholders, DefaultStakeholders).val
        tl == PyGet(PyDict(d), S_timeline, DefaultTimeline).val
    IN  /\ IsIterable(stk)
        /\ StakeholderRows(Elements(stk)).exc = ""
        /\ ~Tab3And4Raise(d)
        /\ IsIterable(tl)
        /\ TimelineRows(Elements(tl)).exc = ""

\* Lines 366-369: "+ Add Timeline Phase" is pressed. The script run it starts
\* goes through the tabs down to the button, appends the new row to
\* final_timeline, stores it and calls st.rerun(): the tabs run again.
AddTimelinePhase ==
    /\ pc = "idle"
    /\ ReachesTab5(Store)
    /\ LET d == UIPass(Store, FALSE)
           final_timeline == Elements(d[S_timeline])
       IN  /\ Len(final_timeline) < MaxRows
           /\ heap' = [heap EXCEPT ![autofill_data] =
                          SetItem(d, S_timeline,
                                  PyList(final_timeline \o <<NewPhaseRow>>))]
    /\ pc' = "ui"
    /\ ScreenCleared
    /\ UNCHANGED <<caller, api_key_input, autofill_data, generated_sow, autofill_done>>
    /\ UNCHANGED clientVars
    /\ UNCHANGED exportVars

\* ----------------------------------------- the export tab (lines 42-67, 380-516)

Min(a, b) == IF a < b THEN a ELSE b
Rep(c, n) == [k \in 1..n |-> c]

RECURSIVE Flatten(_)
Flatten(xs) == IF xs = <<>> THEN <<>> ELSE Head(xs) \o Flatten(Tail(xs))

\* Characters outside ASCII, by code point: the eight that clean_text_pdf
\* replaces, one more that latin-1 lacks (the euro sign) and one it has
Typographic == {"u2013", "u2014", "u2018", "u2019", "u201c", "u201d", "u25cf", "u2022"}
NotLatin1 == Typographic \cup {"u20ac"}

\* Lines 65-66: the replacements
Replacement(c) ==
    CASE c \in {"u2013", "u2014", "u25cf", "u2022"} -> "-"
      [] c \in {"u2018", "u2019"} -> "'"
      [] c \in {"u201c", "u201d"} -> QT
      [] OTHER -> c

\* str(v), and an f-string's {v}
Format(v) == IF TypeOf(v) = "str" THEN v[2] ELSE PyRepr(v)

\* Lines 62-67
clean_text_pdf(text) ==
    IF TypeOf(text) # "str" THEN Format(text)
    ELSE [k \in 1..Len(text[2]) |->
            LET c == Replacement(text[2][k])
            IN  IF c \in NotLatin1 THEN "?" ELSE c]

\* The cell widths in characters (lines 486-488, 506-508)
StakeholderChars == 35
PhaseChars == 15
TaskChars == 70
WeeksChars == 5

\* A slice that keeps one character too many
SliceOneMore(v, n) ==
    IF TypeOf(v) \in {"str", "list"}
    THEN Ok(<<v[1], SubSeq(v[2], 1, Min(n + 1, Len(v[2])))>>)
    ELSE Raise("TypeError")

\* v[:n]
Slice(v, n) ==
    IF TypeOf(v) \in {"str", "list"}
    THEN Ok(<<v[1], SubSeq(v[2], 1, Min(n, Len(v[2])))>>)
    ELSE Raise("TypeError")

\* datetime.now().strftime('%Y-%m-%d'), on the days of one month
DateText(day) ==
    <<"2", "0", "2", "6", "-", "1", "1", "-">>
        \o (IF day < 10 THEN <<"0">> ELSE <<>>) \o IntText(day)

\* text.splitlines(), for the line ends "\n", "\r" and "\r\n"
RECURSIVE SplitLines(_)
SplitLines(text) ==
    IF text = <<>> THEN <<>>
    ELSE LET ends == {k \in 1..Len(text) : text[k] \in {"\n", "\r"}}
         IN  IF ends = {} THEN <<text>>
             ELSE LET brk == CHOOSE k \in ends : \A j \in ends : k <= j
                      skip == IF text[brk] = "\r" /\ brk < Len(text) /\ text[brk + 1] = "\n"
                              THEN brk + 1 ELSE brk
                  IN  <<SubSeq(text, 1, brk - 1)>> \o SplitLines(Drop(text, skip))

\* Lines 421, 425: one <li> for each line that is not blank
Bullets(text) ==
    LET lines == SplitLines(text)
    IN  Flatten([k \in 1..Len(lines) |->
            IF Strip(lines[k]) # <<>>
            THEN <<"<li>">> \o lines[k] \o <<"</li>">> ELSE <<>>])

\* Line 431: final_sc_text.replace(chr(10), '<br>')
WithBreaks(text) ==
    Flatten([k \in 1..Len(text) |->
        IF text[k] = "\n" THEN <<"<", "b", "r", ">">> ELSE <<text[k]>>])

\* Lines 413, 438: a table row of three cells
HtmlRow(a, b, c) ==
    <<"<tr>", "<td>">> \o Format(a) \o <<"</td>", "<td>">> \o Format(b)
        \o <<"</td>", "<td>">> \o Format(c) \o <<"</td>", "</tr>">>

\* Lines 384-454: html_content. A fixed piece of the template is one element, a
\* rendered value is one element for each of its characters.
Markup(f, day) ==
    <<"<html ...><head><title>Statement of Work</title><style>...</style></head><body>",
      "<h1>Statement of Work: ">> \o f.sol_type \o <<"</h1>",
      "<p><strong>Customer:</strong> ">> \o f.customer_name \o <<"</p>",
      "<p><strong>Date:</strong> ">> \o DateText(day) \o <<"</p>", "<hr>",
      "<h2>1. PROJECT OVERVIEW</h2>", "<h3>1.1 OBJECTIVE</h3>",
      "<p>">> \o Format(f.final_objective) \o <<"</p>",
      "<h3>1.2 STAKEHOLDERS</h3>", "<table>",
      "<tr><th>Name</th><th>Title</th><th>Contact/Email</th></tr>">>
    \o Flatten([k \in 1..Len(f.updated_stakeholders) |->
           LET st == f.updated_stakeholders[k]
           IN  HtmlRow(st.name, st.title, st.email)])
    \o <<"</table>", "<h3>1.3 ASSUMPTIONS & DEPENDENCIES</h3>",
         "<table style=...><tr><td style=...>", "<h4>Dependencies</h4>", "<ul>">>
    \o Bullets(f.deps_text)
    \o <<"</ul>", "</td><td style=...>", "<h4>Assumptions</h4>", "<ul>">>
    \o Bullets(f.assump_text)
    \o <<"</ul>", "</td></tr></table>", "<h3>1.4 PoC SUCCESS CRITERIA</h3>",
         "<div style=...>">>
    \o WithBreaks(f.final_sc_text)
    \o <<"</div>", "<h2>2. SCOPE OF WORK & TIMELINES</h2>",
         "<h3>Development Timelines</h3>", "<table>",
         "<tr><th>Phase</th><th>Task</th><th>Weeks</th></tr>">>
    \o Flatten([k \in 1..Len(f.final_timeline) |->
           LET t == f.final_timeline[k]
           IN  HtmlRow(t.Phase, t.Task, t.Weeks)])
    \o <<"</table>", "<h2>3. ARCHITECTURE</h2>", "<ul>",
         "<li><strong>Compute:</strong> ">> \o f.compute \o <<"</li>",
         "<li><strong>Storage:</strong> ">> \o f.storage \o <<"</li>",
         "<li><strong>ML Services:</strong> ">> \o f.ml_services \o <<"</li>",
         "<li><strong>UI Layer:</strong> ">> \o f.ui_layer \o <<"</li>", "</ul>",
         "<h2>4. RESOURCES</h2>",
         "<p><strong>Ownership:</strong> ">> \o f.ownership \o <<"</p>",
         "<p><strong>Estimates:</strong> ">> \o IntText(f.n_users) \o <<" users, ">>
    \o IntText(f.n_reqs) \o <<" requests/day</p>", "</body></html>">>

\* A call on the PDF object: its name, its numeric arguments, its style or
\* alignment argument and its text
Call(op, args, style, txt) == [op |-> op, args |-> args, style |-> style, txt |-> txt]

\* Lines 44-47, run by add_page()
PdfHeader ==
    <<Call("set_font", <<15>>, "Arial B", <<>>),
      Call("cell", <<0, 10, 0, 1>>, "C", <<"Statement of Work (SOW)">>),
      Call("ln", <<10>>, "", <<>>)>>

\* Lines 49-52, run when the page is closed
PdfFooter ==
    <<Call("set_y", <<-15>>, "", <<>>),
      Call("set_font", <<8>>, "Arial I", <<>>),
      Call("cell", <<0, 10, 0, 0>>, "C", <<"Page 1">>)>>

\* Lines 54-58
chapter_title(title) ==
    <<Call("set_font", <<12>>, "Arial B", <<>>),
      Call("set_fill_color", <<230, 230, 230>>, "", <<>>),
      Call("cell", <<0, 10, 0, 1>>, "L fill", <<title>>),
      Call("ln", <<4>>, "", <<>>)>>

\* pdf.cell(w, 7, clean_text_pdf(v[:n]), 1, ln)
DataCell(w, v, n, ln) ==
    IF Slice(v, n).exc # "" THEN Raise(Slice(v, n).exc)
    ELSE Ok(<<Call("cell", <<w, 7, 1, ln>>, "", clean_text_pdf(Slice(v, n).val))>>)

\* Three cells of a table row; the first slice that raises ends create_pdf
DataRow(a, b, c) ==
    IF a.exc # "" THEN a ELSE IF b.exc # "" THEN b ELSE IF c.exc # "" THEN c
    ELSE Ok(a.val \o b.val \o c.val)

RECURSIVE DataRows(_)
DataRows(rows) ==
    IF rows = <<>> THEN Ok(<<>>)
    ELSE IF Head(rows).exc # "" THEN Head(rows)
    ELSE LET rest == DataRows(Tail(rows))
         IN  IF rest.exc # "" THEN rest ELSE Ok(Head(rows).val \o rest.val)

\* A paginated renderer that stamps the day on the page
create_pdf_dated(f) ==
    Ok(PdfHeader \o <<Call("cell", <<0, 8, 0, 1>>, "", DateText(today))>> \o PdfFooter)

\* Lines 471-510: create_pdf, as the calls it makes on the PDF object, or the
\* exception it raises. Page breaks and the file's encoding are the library's.
create_pdf(f) ==
    LET stk == DataRows([k \in 1..Len(f.updated_stakeholders) |->
                   LET st == f.updated_stakeholders[k]
                   IN  DataRow(DataCell(60, st.name, StakeholderChars, 0),
                               DataCell(60, st.title, StakeholderChars, 0),
                               DataCell(60, st.email, StakeholderChars, 1))])
        tl == DataRows([k \in 1..Len(f.final_timeline) |->
                   LET t == f.final_timeline[k]
                   IN  DataRow(DataCell(30, t.Phase, PhaseChars, 0),
                               DataCell(130, t.Task, TaskChars, 0),
                               DataCell(20, t.Weeks, WeeksChars, 1))])
    IN  IF stk.exc # "" THEN stk
        ELSE IF tl.exc # "" THEN tl
        ELSE Ok(PdfHeader
                \o chapter_title("1. PROJECT OVERVIEW")
                \o <<Call("set_font", <<11>>, "Arial B", <<>>),
                     Call("cell", <<0, 8, 0, 1>>, "", <<"1.1 OBJECTIVE">>),
                     Call("set_font", <<10>>, "Arial", <<>>),
                     Call("multi_cell", <<0, 5>>, "", clean_text_pdf(f.final_objective)),
                     Call("ln", <<5>>, "", <<>>),
                     Call("set_font", <<11>>, "Arial B", <<>>),
                     Call("cell", <<0, 8, 0, 1>>, "", <<"1.2 STAKEHOLDERS">>),
                     Call("set_font", <<9>>, "Arial B", <<>>),
                     Call("cell", <<60, 7, 1, 0>>, "", <<"Name">>),
                     Call("cell", <<60, 7, 1, 0>>, "", <<"Title">>),
                     Call("cell", <<60, 7, 1, 1>>, "", <<"Contact/Email">>),
                     Call("set_font", <<9>>, "Arial", <<>>)>>
                \o stk.val
                \o <<Call("ln", <<5>>, "", <<>>)>>
                \o chapter_title("2. SCOPE OF WORK")
                \o <<Call("set_font", <<10>>, "Arial B", <<>>),
                     Call("cell", <<0, 6, 0, 1>>, "", <<"2.1 ARCHITECTURE">>),
                     Call("set_font", <<10>>, "Arial", <<>>),
                     Call("multi_cell", <<0, 5>>, "",
                          clean_text_pdf(PyStr(
                              <<"Compute: ">> \o f.compute \o <<"\n", "Storage: ">>
                              \o f.storage \o <<"\n", "ML: ">> \o f.ml_services
                              \o <<"\n", "UI: ">> \o f.ui_layer))),
                     Call("ln", <<5>>, "", <<>>),
                     Call("set_font", <<10>>, "Arial B", <<>>),
                     Call("cell", <<0, 6, 0, 1>>, "", <<"2.2 TIMELINES">>),
                     Call("set_font", <<9>>, "Arial B", <<>>),
                     Call("cell", <<30, 7, 1, 0>>, "", <<"Phase">>),
                     Call("cell", <<130, 7, 1, 0>>, "", <<"Task">>),
                     Call("cell", <<20, 7, 1, 1>>, "", <<"Wks">>),
                     Call("set_font", <<9>>, "Arial", <<>>)>>
                \o tl.val
                \o PdfFooter)

\* The field sets Tab 6 is given
MaxListLen == 2
LastDay == 2
MaxRenders == 2

T_short == PyStr(<<"A", "l">>)
T_typographic == PyStr(<<"u2014", "u201c", "x", "u20ac", "u00e9", "u2022">>)

Stakeholder(n, t, e) == [name |-> n, title |-> t, email |-> e]
Step(p, t, w) == [Phase |-> p, Task |-> t, Weeks |-> w]

StakeholderChoices ==
    { Stakeholder(T_short, PyStr(Rep("t", 50)), PyStr(Rep("e", StakeholderChars + 1))),
      Stakeholder(PyStr(Rep("n", StakeholderChars)), T_typographic, PyStr(<<>>)),
      Stakeholder(PyNone, T_short, T_short) }

StepChoices ==
    { Step(PyStr(Rep("p", PhaseChars + 1)), PyStr(Rep("k", TaskChars)),
           PyStr(Rep("w", WeeksChars + 1))),
      Step(PyStr(Rep("p", PhaseChars)), PyStr(Rep("k", TaskChars + 1)),
           PyStr(Rep("w", WeeksChars))),
      Step(T_typographic, T_short, PyStr(<<>>)) }

ListsOf(S) == UNION {[1..n -> S] : n \in 0..MaxListLen}

FieldSets ==
    [ sol_type : {<<"O", "t", "h", "e", "r">>},
      customer_name : {<<"A", "c", "m", "e">>},
      final_objective : {Placeholder, T_typographic},
      updated_stakeholders : ListsOf(StakeholderChoices),
      deps_text : {<<>>, <<"a", "\n", " ", "\n", "b", "\r", "\n">>},
      assump_text : {<<"c">>},
      final_sc_text : {<<"*", "h", "*", "\n", "-", " ", "p">>},
      final_timeline : ListsOf(StepChoices),
      compute : {<<"L", "a", "m", "b", "d", "a">>},
      storage : {<<"S", "3">>},
      ml_services : {<<"B", "e", "d", "r", "o", "c", "k">>},
      ui_layer : {<<"S", "t", "r", "e", "a", "m", "l", "i", "t">>},
      ownership : {<<"S", "h", "a", "r", "e", "d">>},
      n_users : {100},
      n_reqs : {5} ]

NotRendered == Raise("not rendered")

\* Tab 6 of a script run: html_content is built, and with the PDF library
\* present create_pdf() is called inside try/except.
ExportTab ==
    /\ pc = "export"
    /\ Len(render_dates) < MaxRenders
    /\ html_content' = Markup(fields, today)
    /\ pdf_data' = IF FPDF THEN create_pdf(fields) ELSE pdf_data
    /\ render_dates' = Append(render_dates, today)
    /\ UNCHANGED <<pc, caller, fields, FPDF, today>>
    /\ UNCHANGED clientVars
    /\ UNCHANGED handlerVars

\* Midnight passes between two script runs
Midnight ==
    /\ pc = "export"
    /\ today < LastDay
    /\ today' = today + 1
    /\ UNCHANGED <<pc, caller, fields, FPDF, render_dates, html_content, pdf_data>>
    /\ UNCHANGED clientVars
    /\ UNCHANGED handlerVars

\* ---------------------------------------------------------- specifications

\* Outside the export tab's specification nothing is rendered
NoExport ==
    /\ fields = [f \in {} |-> f]
    /\ FPDF = FALSE
    /\ today = 1
    /\ render_dates = <<>>
    /\ html_content = <<>>
    /\ pdf_data = NotRendered

\* Lines 126-129, at the start of the session's first script run
SessionStart ==
    /\ heap = [o \in 1..2 |-> EmptyDict]
    /\ autofill_data = 1
    /\ generated_sow = 0
    /\ autofill_done = FALSE
    /\ api_key_input = PyStr(<<>>)
    /\ phase = 0
    /\ progress = <<>>
    /\ status_text = ""
    /\ error = ""
    /\ outcomes = <<>>

NoCall ==
    /\ api_key = PyNone
    /\ i = 0
    /\ posts = 0
    /\ sleeps = 0
    /\ response = NoResponse
    /\ statuses = <<>>
    /\ ret = PyNone

\* The application: a session of script runs
Init == pc = "ui" /\ caller = "handler" /\ NoCall /\ SessionStart /\ NoExport
Next == Click \/ Post \/ Sleep \/ Merge \/ RenderTabs \/ EditRerun \/ AddTimelinePhase
Spec == Init /\ [][Next]_vars

\* call_gemini_json on its own
InitClient == pc = "ready" /\ caller = "direct" /\ NoCall /\ SessionStart /\ NoExport
NextClient == DirectCall \/ Post \/ Sleep \/ DirectReturn
SpecClient == InitClient /\ [][NextClient]_vars

\* The export tab on its own, given any final field set
InitExport ==
    /\ pc = "export" /\ caller = "handler" /\ NoCall /\ SessionStart
    /\ fields \in FieldSets
    /\ FPDF \in BOOLEAN
    /\ today = 1
    /\ render_dates = <<>>
    /\ html_content = <<>>
    /\ pdf_data = NotRendered
NextExport == ExportTab \/ Midnight
SpecExport == InitExport /\ [][NextExport]_vars

\* ------------------------------------------------------------------ claims

Success == "Complete SOW Draft Generated Successfully!"
MergeStep == pc = "returned" /\ caller = "handler"
CallEnded == pc = "returned" /\ caller = "direct"
NonOk(n) == statuses[n] # 200

\* C1: with a credential, when every attempt of a call was answered with a
\* non-200 status, the call made exactly 3 attempts, slept exactly 2 times
\* and returned None.
C1_ThreeAttemptsTwoSleeps ==
    ( /\ CallEnded
      /\ Truthy(api_key)
      /\ statuses # <<>>
      /\ \A n \in 1..Len(statuses) : statuses[n] \notin {0, 200} )
    => (posts = 3 /\ sleeps = 2 /\ ret = PyNone)

\* C2: a call never goes on after a status-200 response: every sleep and
\* every further attempt follows an attempt that raised or was answered with
\* a non-200 status.
C2_NoRetryAfter200 ==
    LET failed == Cardinality({n \in 1..Len(statuses) : NonOk(n)})
    IN  sleeps <= failed /\ posts <= failed + 1

\* C3: a call whose last response is a status-200 response with a malformed
\* payload returns None.
C3_MalformedGivesNone ==
    ( /\ CallEnded
      /\ response.status_code = 200
      /\ \/ response.json.exc # ""
         \/ response.json.val \in MalformedBodies )
    => ret = PyNone

\* C4: a call with an empty or absent credential makes no network call and
\* no sleep, and returns None.
C4_NoCredentialNoCall ==
    (caller = "direct" /\ ~Truthy(api_key))
    => (pc \in {"ready", "returned"} /\ posts = 0 /\ sleeps = 0 /\ ret = PyNone)

C4_Witness ==
    CallEnded /\ api_key = PyStr(<<>>) /\ posts = 0 /\ sleeps = 0 /\ ret = PyNone

\* C5: merging a phase's result R into the draft D gives R's value for every
\* key of R, D's value for every other key of D, and no other key.
C5_MergeIsShallowOverwrite ==
    [][ (MergeStep /\ TypeOf(ret) = "dict" /\ Truthy(ret)) =>
            LET D == Draft
                R == ret[2]
                merged == heap'[autofill_data']
            IN  /\ DOMAIN merged = DOMAIN D \cup DOMAIN R
                /\ \A k \in DOMAIN R : merged[k] = R[k]
                /\ \A k \in DOMAIN D \ DOMAIN R : merged[k] = D[k] ]_vars

\* Phase 1 gave an objective and phase 2 a timeline: the store holds both,
\* the objective replaced and the stakeholders kept.
C5_Witness ==
    /\ pc = "post"
    /\ phase = 3
    /\ outcomes = <<"result", "result">>
    /\ Store[S_objective] = PyStr(<<"A">>)
    /\ Store[S_timeline] = Timeline1[S_timeline]
    /\ Store[S_stakeholders] = DefaultStakeholders

\* C6: after a phase that returned a mapping the store is the merged draft;
\* a phase that returned nothing leaves the store as it was, every key with
\* its value.
C6_CommitAfterEachPhase ==
    [][ MergeStep =>
            /\ (TypeOf(ret) = "dict" /\ Truthy(ret)) =>
                    /\ autofill_data' = generated_sow
                    /\ heap'[autofill_data'] = heap'[generated_sow]
            /\ ~Truthy(ret) =>
                    /\ heap'[autofill_data'] = Store
                    /\ \A k \in DOMAIN Store :
                          k \in DOMAIN heap'[autofill_data']
                          /\ heap'[autofill_data'][k] = Store[k] ]_vars

\* Phase 1 gave an objective, phases 2 and 3 nothing: the store still has it.
C6_Witness ==
    /\ pc = "post"
    /\ phase = 4
    /\ outcomes = <<"result", "absent", "absent">>
    /\ Store[S_objective] = PyStr(<<"A">>)
    /\ autofill_data = generated_sow

\* C7: a run reports 20, 40, 60, 80, 90, 100, one value after each phase,
\* whatever the phases returned.
C7_ProgressSequence ==
    /\ phase > 0 => progress = SubSeq(ProgressAfter, 1, Len(outcomes))
    /\ (pc = "ui" /\ phase > 0) => progress = ProgressAfter

\* C8: completion is flagged and the success status shown by the step that
\* ends phase 6 and by no other; that step does so whatever the phases
\* returned; a run stopped by an exception, or refused for its credential,
\* does neither.
C8_CompletionAfterPhase6 ==
    [][ /\ (autofill_done' # autofill_done \/ (status_text' = Success /\ status_text # Success))
            => (MergeStep /\ phase = NumPhases /\ progress' = ProgressAfter)
        /\ (MergeStep /\ phase = NumPhases /\ error' = "")
            => (autofill_done' /\ status_text' = Success)
        /\ error' # ""
            => (autofill_done' = autofill_done /\ status_text' # Success) ]_vars

\* A run in which all six phases returned nothing has completed.
C8_Witness ==
    /\ pc = "ui"
    /\ outcomes = <<"absent", "absent", "absent", "absent", "absent", "absent">>
    /\ autofill_done
    /\ status_text = Success

\* C9: when a phase's merge raises, the failure message is shown, the run
\* ends without flagging completion, and the store is what it was before
\* that phase.
C9_ExceptionKeepsCommitted ==
    [][ (MergeStep /\ Truthy(ret) /\ DictUpdate(Draft, ret).exc # "") =>
            /\ error' = "Error during generation"
            /\ pc' = "ui"
            /\ autofill_done' = autofill_done
            /\ heap'[autofill_data'] = Store ]_vars

\* C10: a status-200 response whose text is the JSON text of an object J,
\* bare or fenced, makes the call return J.
C10_FencedObjectRoundTrips ==
    (CallEnded /\ response.status_code = 200 /\ response.json.exc = "")
    => \A J \in JsonObjects :
          response.json.val \in {BodyWithText(PyStr(t)) : t \in PayloadsOf(J)}
          => ret = J

C10_Witness ==
    /\ CallEnded
    /\ response.status_code = 200
    /\ response.json.val \in
          {BodyWithText(PyStr(t)) : t \in FencedJson(JsonText(PyDict(Timeline1), <<" ">>))}
    /\ ret = PyDict(Timeline1)

\* C13: whenever a script run has finished, every entry of the store's
\* timeline is a record with the fields phase, task and weeks, the fields the
\* next edit pass reads.
C13_TimelineKeepsFields ==
    (pc = "idle" /\ S_timeline \in DOMAIN Store) =>
        LET tl == Store[S_timeline]
        IN  /\ IsIterable(tl)
            /\ \A n \in 1..Len(Elements(tl)) :
                  /\ TypeOf(Elements(tl)[n]) = "dict"
                  /\ {S_phase, S_task, S_weeks} \subseteq DOMAIN Elements(tl)[n][2]

Rendered == html_content # <<>>
Rerendered == Rendered /\ render_dates' # render_dates
LastRenderedOn == render_dates[Len(render_dates)]
Contains(s, p) == \E k \in 0..(Len(s) - Len(p)) : SubSeq(s, k + 1, k + Len(p)) = p
CellsOfWidths(calls, ws) ==
    SelectSeq(calls, LAMBDA c : c.op = "cell" /\ c.args[1] \in ws /\ c.args[2] = 7)

\* What a cell shows of a field cut at n characters: as many characters as the
\* field has, n at most, each one the field's character at that place unless
\* that character is one clean_text_pdf substitutes
ShowsFirst(cell, v, n) ==
    /\ Len(cell.txt) = Min(n, Len(v[2]))
    /\ \A j \in 1..Len(cell.txt) :
          v[2][j] \notin NotLatin1 => cell.txt[j] = v[2][j]

C12_PdfTruncatesMarkupDoesNot ==
    Rendered =>
        /\ \A k \in 1..Len(fields.updated_stakeholders) :
              LET st == fields.updated_stakeholders[k]
              IN  Contains(html_content, HtmlRow(st.name, st.title, st.email))
        /\ \A k \in 1..Len(fields.final_timeline) :
              LET t == fields.final_timeline[k]
              IN  Contains(html_content, HtmlRow(t.Phase, t.Task, t.Weeks))
        /\ (FPDF /\ pdf_data.exc = "") =>
              LET sc == CellsOfWidths(pdf_data.val, {60})
                  tc == CellsOfWidths(pdf_data.val, {30, 130, 20})
              IN  /\ Len(sc) = 3 + 3 * Len(fields.updated_stakeholders)
                  /\ Len(tc) = 3 + 3 * Len(fields.final_timeline)
                  /\ \A k \in 1..Len(fields.updated_stakeholders) :
                        LET st == fields.updated_stakeholders[k]
                        IN  /\ ShowsFirst(sc[3 * k + 1], st.name, 35)
                            /\ ShowsFirst(sc[3 * k + 2], st.title, 35)
                            /\ ShowsFirst(sc[3 * k + 3], st.email, 35)
                  /\ \A k \in 1..Len(fields.final_timeline) :
                        LET t == fields.final_timeline[k]
                        IN  /\ ShowsFirst(tc[3 * k + 1], t.Phase, 15)
                            /\ ShowsFirst(tc[3 * k + 2], t.Task, 70)
                            /\ ShowsFirst(tc[3 * k + 3], t.Weeks, 5)

C12_Witness ==
    /\ Rendered
    /\ FPDF
    /\ pdf_data.exc = ""
    /\ Len(fields.updated_stakeholders) > 0
    /\ Len(fields.updated_stakeholders[1].title[2]) = 50
    /\ Len(CellsOfWidths(pdf_data.val, {60})[5].txt) = 35
    /\ Contains(html_content, <<"<td>">> \o Rep("t", 50) \o <<"</td>">>)
    /\ Len(fields.final_timeline) > 0
    /\ Len(fields.final_timeline[1].Task[2]) = 71

====
